---- MODULE Spec2Model ----
(***************************************************************************)
(* Process supervision of guvnor (internal/process): Manager, Process,     *)
(* the per-child supervision loop (Process.monitor), graceful/forceful     *)
(* stop, PID files and their recovery, Manager.StopAll and                 *)
(* EnhancedManager.StopAllWithResults.                                     *)
(*                                                                         *)
(* One action is one critical section of the Go code (the code between a   *)
(* Lock and its Unlock) or one blocking point (cmd.Wait, select).          *)
(* p.mu is held across the whole of Process.Stop, so a stop that waits for *)
(* its child is the only holder that spans several actions: stopc[o].active*)
(* is that lock.                                                           *)
(*                                                                         *)
(* Time is modelled by the two facts the code depends on: whether the 10 s *)
(* of a stop have elapsed (stopc[o].expired) and that a select whose case  *)
(* is ready does not wait.                                                 *)
(***************************************************************************)
EXTENDS Integers, Sequences, FiniteSets, TLC

\* ---- bounds ------------------------------------------------------------
MaxObjs == 2
MaxPids == 3
MaxRetries == 1
FleetPids == 2
OpsPids == 2
ApiPids == 2
LoopPids == 2
HealthRetries == 2
MaxInterval == 7
MaxApps == 2
\* capacity of each log ring
LogCapacity == 2
\* log entries appended in a behaviour
MaxAppends == 4
\* distinct readings of time.Now() seen by Log
MaxClock == 2

\* ---- the configured apps and the threads --------------------------------
AppSeq == <<"web", "api">>
Apps == {AppSeq[i] : i \in 1..Len(AppSeq)}

\* u1: a caller of the Manager API (the user, through the CLI or the HTTP
\* API); hc: the health prober (Checker.checkApp of one app); sv: runStart in
\* Server.Start; sd: the shutdown path of runStart; w1, w2: the goroutines of StopAllWithResults
Caller == "u1"
Prober == "hc"
ServerThread == "sv"
ShutdownThread == "sd"
WorkerOf == [a \in Apps |-> IF a = "web" THEN "w1" ELSE "w2"]
Workers == {WorkerOf[a] : a \in Apps}
Threads == {Caller, Prober, ServerThread, ShutdownThread} \cup Workers

StatusStopped == "stopped"
StatusStarting == "starting"
StatusRunning == "running"
StatusStopping == "stopping"
StatusFailed == "failed"

VARIABLES
  procs,     \* the Process objects ever constructed, in order of construction
  registry,  \* Manager.processes: app name -> index into procs, 0 = absent
  child,     \* the OS processes: [app, st, code, own]
  mon,       \* the goroutine Process.monitor of each child (pc "none": no goroutine)
  pidfile,   \* pidDir/{name}.pid: the pid it holds, 0 = no file
  stopc,     \* per Process: the Process.Stop call that holds p.mu while it waits
  thr,       \* the threads
  ctxDone,   \* the top-level context of runStart is cancelled
  crashed,   \* a goroutine panicked: the supervisor process is gone
  hc,        \* the health prober of app web: Checker.checkApp and c.results
  cfg,       \* the configuration: as loaded, and as Validate leaves it
  px,        \* the proxy: the request in hand and what has been done for it
  lg,        \* the LogManager: its rings and the open log stream
  cm         \* the certificate manager: its domains and the last SNI host judged

\* the supervisor and its prober
sup == <<procs, registry, child, mon, pidfile, stopc, thr, ctxDone, crashed, hc>>

\* the components around it
aux == <<cfg, px, lg, cm>>

vars == <<procs, registry, child, mon, pidfile, stopc, thr, ctxDone, crashed, hc,
          cfg, px, lg, cm>>

Objs == 1..Len(procs)
Pids == 1..Len(child)

NoStop == [active |-> FALSE, caller |-> "none", expired |-> FALSE]
NoMon == [pc |-> "none", obj |-> 0, exitCode |-> 0, branch |-> "none"]
IdleThread == [pc |-> "idle", op |-> "none", obj |-> 0, todo |-> {}, errs |-> 0,
               res |-> "none", stopped |-> 0]

\* the prober: pc (off: no goroutine; delay: the initial select; loop: the
\* select on ticker.C; restarting: inside Manager.Restart), the HealthCheck
\* config it was started with (retries, interval in seconds), the seconds
\* since it started, whether ticker.C holds a tick, the Status stored in
\* c.results, the number of failed probes in a row, and the second of its first
\* probe (0: none yet)
NoProber == [pc |-> "off", retries |-> 0, interval |-> 0, now |-> 0,
             tick |-> FALSE, status |-> "none", failures |-> 0, first |-> 0]

\* no configuration loaded, no request in hand, no log written
NoConfig == [apps |-> <<>>, tls |-> [autoCert |-> FALSE, email |-> FALSE],
             tracking |-> FALSE, st |-> "none", err |-> "none"]
NoRequest == [pc |-> "idle", host |-> [s |-> "", up |-> FALSE, port |-> FALSE],
              app |-> 0, status |-> 0, lines |-> 0, inbound |-> 0, fresh |-> 0]
\* cert.Manager before a host was judged: no domain configured
NoCerts == [domains |-> <<>>, host |-> [name |-> <<>>, port |-> FALSE],
            res |-> "none"]
\* the tags that log: a process name and the supervisor's own tag
LogTags == {"web", "system"}
NoEntry == [Timestamp |-> 0, Process |-> "", Message |-> 0]
\* NewCircularBuffer: capacity zeroed slots, head = tail = 0, not full
NewCircularBuffer(capacity) ==
  [buffer |-> [i \in 0..(capacity - 1) |-> NoEntry],
   head |-> 0, tail |-> 0, size |-> capacity, full |-> FALSE]
NoRing == [buffer |-> <<>>, head |-> 0, tail |-> 0, size |-> 0, full |-> FALSE]
NoStream == [pc |-> "closed", process |-> "", lastCount |-> 0, sent |-> <<>>,
             since |-> 0, seen |-> 0]
NoOut == [kind |-> "none", process |-> "", n |-> 0, res |-> <<>>, at |-> 0]
\* NewLogManager: no ring yet.  hist is the history of everything Log has
\* appended, in order; Message numbers the entries.
NoLogs == [buffers |-> [t \in LogTags |-> NoRing], now |-> 1, hist |-> <<>>,
           stream |-> NoStream, out |-> NoOut]

\* p.mu is free (no Process.Stop is waiting inside its critical section)
Free(o) == ~stopc[o].active

\* os.Process.Signal fails once the process has been waited for (own child)
\* or no longer exists (a process found by pid)
SignalFails(pid) == child[pid].st = "reaped"

\* exec.Cmd.ProcessState.ExitCode(): -1 while ProcessState is nil
ExitCode(pid) == IF child[pid].st = "reaped" THEN child[pid].code ELSE -1

\* ---- PID-file recovery (NewManager -> loadFromPidFiles) -----------------
\* pre[a]: what pidDir holds for app a when the Manager is constructed
PreStates == [Apps -> {"none", "live", "stale"}]

LiveSeq(pre) == SelectSeq(AppSeq, LAMBDA a : pre[a] = "live")

PidOf(pre, a) == CHOOSE i \in 1..Len(LiveSeq(pre)) : LiveSeq(pre)[i] = a

Recovered(a, pid) ==
  [name |-> a, status |-> StatusRunning, cmd |-> 0, process |-> pid,
   restarts |-> 0, enabled |-> FALSE]

loadFromPidFiles(pre) ==
  LET live == LiveSeq(pre) IN
  [procs    |-> [i \in 1..Len(live) |-> Recovered(live[i], i)],
   registry |-> [a \in Apps |-> IF pre[a] = "live" THEN PidOf(pre, a) ELSE 0],
   pidfile  |-> [a \in Apps |-> IF pre[a] = "live" THEN PidOf(pre, a) ELSE 0]]

NewManager(pre) ==
  LET m == loadFromPidFiles(pre) IN
  /\ procs = m.procs
  /\ registry = m.registry
  /\ pidfile = m.pidfile
  /\ child = [i \in 1..Len(m.procs) |->
                [app |-> m.procs[i].name, st |-> "alive", code |-> 0, own |-> FALSE]]
  /\ mon = [i \in 1..Len(m.procs) |-> NoMon]
  /\ stopc = [i \in 1..Len(m.procs) |-> NoStop]

\* the supervisor after construction, pidDir holding files of the apps in A
InitOver(A) ==
  /\ \E pre \in PreStates :
       /\ \A a \in Apps \ A : pre[a] = "none"
       /\ NewManager(pre)
  /\ thr = [t \in Threads |-> IdleThread]
  /\ ctxDone = FALSE
  /\ crashed = FALSE
  /\ hc = NoProber
  /\ cfg = NoConfig
  /\ px = NoRequest
  /\ lg = NoLogs
  /\ cm = NoCerts

Init == InitOver({"web"})

\* a Process built by loadFromPidFiles: an os.Process and no exec.Cmd
IsRecovered(o) == procs[o].cmd = 0 /\ procs[o].process # 0

\* Process.GetPID: the pid of p.cmd.Process, 0 without a cmd
GetPID(o) == IF procs[o].cmd # 0 THEN procs[o].cmd ELSE 0

\* ---- Process.Start / startProcess ---------------------------------------
\* Process.Start refuses when the status is Running or Starting
StartRefused(o) == procs[o].status \in {StatusRunning, StatusStarting}

\* a startProcess that returns the error of cmd.Start without recording it
StartedForgetsFailure(p, ok, pid) ==
  IF ok
    THEN [p EXCEPT !.status = StatusRunning, !.cmd = pid, !.process = pid]
    ELSE p

\* the Process after startProcess: cmd.Start succeeded (ok) or failed
Started(p, ok, pid) ==
  IF ok
    THEN [p EXCEPT !.status = StatusRunning, !.cmd = pid, !.process = pid]
    ELSE [p EXCEPT !.status = StatusFailed]

NewChild(a) == [app |-> a, st |-> "alive", code |-> 0, own |-> TRUE]

writePidFile(a, pid) == [pidfile EXCEPT ![a] = pid]

cleanupPidFile(a) == [pidfile EXCEPT ![a] = 0]

\* a variant of CanSpawn that starts the command whatever the state of ctx
CanSpawnIgnoringCtx(ok) == ok => Len(child) < MaxPids

\* exec.CommandContext: cmd.Start fails at once when ctx is already done
CanSpawn(ok) == ok => (~ctxDone /\ Len(child) < MaxPids)

\* ---- Process.IsRunning ---------------------------------------------------
\* the value returned
IsRunning(o) ==
  /\ procs[o].status = StatusRunning
  /\ procs[o].process # 0 => ~SignalFails(procs[o].process)

\* the status it leaves behind (written under the read lock)
AfterIsRunning(o) ==
  IF /\ procs[o].status = StatusRunning
     /\ procs[o].process # 0
     /\ SignalFails(procs[o].process)
    THEN [procs EXCEPT ![o].status = StatusStopped]
    ELSE procs

\* a caller (proxyRequest, performCheck) probes the registered Process
ProbeIsRunning(a) ==
  /\ ~crashed
  /\ registry[a] # 0
  /\ Free(registry[a])
  /\ procs' = AfterIsRunning(registry[a])
  /\ procs' # procs
  /\ UNCHANGED <<registry, child, mon, pidfile, stopc, thr, ctxDone, crashed, hc, aux>>

\* ---- Manager.Start -------------------------------------------------------
\* the call, by whichever thread makes it
ManagerStartCall(a, en, ok) ==
  LET old == registry[a]
      o == Len(procs) + 1
      pid == Len(child) + 1
      fresh == [name |-> a, status |-> StatusStarting, cmd |-> 0, process |-> 0,
                restarts |-> 0, enabled |-> en]
      base == IF old = 0 THEN procs ELSE AfterIsRunning(old)
  IN
  /\ ~crashed
  /\ Len(procs) < MaxObjs
  /\ CanSpawn(ok)
  /\ old # 0 => (Free(old) /\ ~IsRunning(old))
  /\ procs' = Append(base, Started(fresh, ok, pid))
  /\ stopc' = Append(stopc, NoStop)
  /\ registry' = [registry EXCEPT ![a] = o]
  /\ IF ok
       THEN /\ child' = Append(child, NewChild(a))
            /\ mon' = Append(mon, [NoMon EXCEPT !.pc = "wait", !.obj = o])
            /\ pidfile' = writePidFile(a, pid)
       ELSE UNCHANGED <<child, mon, pidfile>>
  /\ UNCHANGED <<ctxDone, crashed, hc, aux>>

\* a caller of the Manager API starts app a
ManagerStart(a, en, ok) == ManagerStartCall(a, en, ok) /\ UNCHANGED thr

\* ---- Server.Start: Manager.Start for each configured app -----------------
\* runStart calls srv.Start(ctx) with the apps A of the config
ServerStart(A) ==
  /\ ~crashed
  /\ ~ctxDone
  /\ thr[ServerThread].pc = "idle"
  /\ thr' = [thr EXCEPT ![ServerThread].pc = "boot", ![ServerThread].op = "start",
                         ![ServerThread].todo = A]
  /\ UNCHANGED <<procs, registry, child, mon, pidfile, stopc, ctxDone, crashed, hc, aux>>

\* one turn of its loop: Manager.Start(ctx, appConfig); an error ("already
\* running", or the spawn failed) is logged and the loop continues
ServerStartApp(a, en, ok) ==
  LET r == thr[ServerThread]
      next(err) == [thr EXCEPT ![ServerThread].todo = r.todo \ {a},
                               ![ServerThread].errs = IF err THEN r.errs + 1 ELSE r.errs]
  IN
  /\ ~ctxDone
  /\ r.pc = "boot"
  /\ a \in r.todo
  /\ IF registry[a] # 0 /\ IsRunning(registry[a])
       THEN /\ ~crashed
            /\ Free(registry[a])
            /\ en /\ ok
            /\ thr' = next(TRUE)
            /\ UNCHANGED <<procs, registry, child, mon, pidfile, stopc, ctxDone, crashed, hc, aux>>
       ELSE /\ ManagerStartCall(a, en, ok)
            /\ thr' = next(~ok)

\* the loop is over: Server.Start goes on to start the prober and the listeners
ServerStartReturn ==
  /\ ~crashed
  /\ thr[ServerThread].pc = "boot"
  /\ thr[ServerThread].todo = {}
  /\ thr' = [thr EXCEPT ![ServerThread].pc = "done"]
  /\ UNCHANGED <<procs, registry, child, mon, pidfile, stopc, ctxDone, crashed, hc, aux>>

\* ---- the children --------------------------------------------------------
\* a child exits by itself, with status 0 or 1; a process that is not our
\* child is reaped by its own parent at once
ChildExit(pid, code) ==
  /\ child[pid].st = "alive"
  /\ child' = [child EXCEPT ![pid].st = IF child[pid].own THEN "dead" ELSE "reaped",
                            ![pid].code = code]
  /\ UNCHANGED <<procs, registry, mon, pidfile, stopc, thr, ctxDone, crashed, hc, aux>>

\* SIGKILL: ExitCode() of a signalled process is -1
Killed(pid) ==
  IF child[pid].st = "alive"
    THEN [child EXCEPT ![pid].st = IF child[pid].own THEN "dead" ELSE "reaped",
                       ![pid].code = -1]
    ELSE child

\* exec.CommandContext kills the child once ctx is done
CtxKill(pid) ==
  /\ ~crashed
  /\ ctxDone
  /\ child[pid].own
  /\ child[pid].st = "alive"
  /\ child' = Killed(pid)
  /\ UNCHANGED <<procs, registry, mon, pidfile, stopc, thr, ctxDone, crashed, hc, aux>>

\* ---- Process.Stop / stopProcess / forceKill ------------------------------
\* stopProcessWithResult, lines 139-153: the status reported for a stop that
\* returned err or nil after more (late) or less than 10 s
StopStatus(err, late) ==
  IF err THEN "error" ELSE IF late THEN "killed" ELSE "stopped"

\* where thread record r continues once Process.Stop has returned (err: it
\* returned ctx.Err(); late: more than 10 s after it was called): Manager.Stop
\* is done, Process.Restart sleeps 1 s before Start, Manager.StopAll collects
\* the error and goes on, stopProcessWithResult fills in its StopResult.
\* stopped remembers the Process whose Manager.Stop returned nil to the
\* thread, until the thread's next call returns.
AfterStop(r, o, err, late) ==
  IF r.op = "restart" THEN [r EXCEPT !.pc = "sleep", !.obj = o]
  ELSE IF r.op = "stopall"
    THEN [r EXCEPT !.pc = "loop", !.obj = 0, !.errs = IF err THEN r.errs + 1 ELSE r.errs]
  ELSE IF r.op = "result"
    THEN [r EXCEPT !.pc = "wdone", !.res = StopStatus(err, late)]
  ELSE [IdleThread EXCEPT !.stopped = IF err THEN 0 ELSE o]

\* the Process after stopProcess has seen the child gone, or after forceKill
Cleared(p) == [p EXCEPT !.status = StatusStopped, !.process = 0, !.cmd = 0]

\* thread t calls o.Stop(ctx); T is thr with t's bookkeeping before the call
CallStop(t, o, T) ==
  /\ Free(o)
  /\ IF procs[o].status # StatusRunning
       THEN /\ thr' = [T EXCEPT ![t] = AfterStop(T[t], o, FALSE, FALSE)]
            /\ UNCHANGED <<procs, pidfile, stopc>>
       ELSE IF procs[o].process = 0 \/ SignalFails(procs[o].process)
         THEN /\ procs' = [procs EXCEPT ![o].status = StatusStopped]
              /\ pidfile' = cleanupPidFile(procs[o].name)
              /\ thr' = [T EXCEPT ![t] = AfterStop(T[t], o, FALSE, FALSE)]
              /\ UNCHANGED stopc
         ELSE /\ procs' = [procs EXCEPT ![o].status = StatusStopping]
              /\ stopc' = [stopc EXCEPT ![o] = [active |-> TRUE, caller |-> t,
                                                expired |-> FALSE]]
              /\ thr' = [T EXCEPT ![t].pc = "instop", ![t].obj = o]
              /\ UNCHANGED pidfile
  /\ UNCHANGED <<registry, child, mon, ctxDone, crashed>>

\* the done channel is ready: cmd.Wait returned, or (no cmd) the poll loop saw
\* the process gone or gave up after its 100 polls of 100 ms
DoneReady(o) ==
  IF procs[o].cmd # 0
    THEN child[procs[o].cmd].st # "alive"
    ELSE SignalFails(procs[o].process) \/ stopc[o].expired

\* a select of stopProcess without its time.After case
StopWaitsForever(o) ==
  /\ stopc[o].active
  /\ FALSE
  /\ UNCHANGED vars

\* 10 s have passed since the select of stopProcess was entered: none of its
\* other cases was ready in the meantime
WindowExpire(o) ==
  /\ ~crashed
  /\ stopc[o].active
  /\ ~stopc[o].expired
  /\ ~ctxDone
  /\ ~DoneReady(o)
  /\ stopc' = [stopc EXCEPT ![o].expired = TRUE]
  /\ UNCHANGED <<procs, registry, child, mon, pidfile, thr, ctxDone, crashed, hc, aux>>

\* case err := <-done
StopDone(o) ==
  LET t == stopc[o].caller IN
  /\ ~crashed
  /\ stopc[o].active
  /\ DoneReady(o)
  /\ procs' = [procs EXCEPT ![o] = Cleared(procs[o])]
  /\ child' = IF procs[o].cmd # 0
                THEN [child EXCEPT ![procs[o].cmd].st = "reaped"]
                ELSE child
  /\ pidfile' = cleanupPidFile(procs[o].name)
  /\ stopc' = [stopc EXCEPT ![o] = NoStop]
  /\ thr' = [thr EXCEPT ![t] = AfterStop(thr[t], o, FALSE, stopc[o].expired)]
  /\ UNCHANGED <<registry, mon, ctxDone, crashed, hc, aux>>

\* forceKill: SIGKILL to the process group, then clear the handles
forceKill(o, t, err) ==
  /\ procs' = [procs EXCEPT ![o] = Cleared(procs[o])]
  /\ child' = Killed(procs[o].process)
  /\ pidfile' = cleanupPidFile(procs[o].name)
  /\ stopc' = [stopc EXCEPT ![o] = NoStop]
  /\ thr' = [thr EXCEPT ![t] = AfterStop(thr[t], o, err, stopc[o].expired)]
  /\ UNCHANGED <<registry, mon, ctxDone, crashed, hc, aux>>

\* case <-time.After(10 * time.Second)
StopTimeout(o) ==
  /\ ~crashed
  /\ stopc[o].active
  /\ stopc[o].expired
  /\ forceKill(o, stopc[o].caller, FALSE)

\* case <-ctx.Done()
StopCtxDone(o) ==
  /\ ~crashed
  /\ stopc[o].active
  /\ ctxDone
  /\ forceKill(o, stopc[o].caller, TRUE)

\* ---- Manager.Stop, Manager.Restart / Process.Restart ---------------------
ManagerStop(t, a) ==
  /\ ~crashed
  /\ thr[t].pc = "idle"
  /\ registry[a] # 0
  /\ CallStop(t, registry[a], [thr EXCEPT ![t].op = "stop"])
  /\ UNCHANGED <<hc, aux>>

ManagerRestart(t, a) ==
  /\ ~crashed
  /\ thr[t].pc = "idle"
  /\ registry[a] # 0
  /\ CallStop(t, registry[a], [thr EXCEPT ![t].op = "restart"])
  /\ UNCHANGED <<hc, aux>>

\* Process.Restart after its 1 s sleep: p.Start(ctx)
RestartStart(t, ok) ==
  LET o == thr[t].obj
      pid == Len(child) + 1
  IN
  /\ ~crashed
  /\ thr[t].pc = "sleep"
  /\ Free(o)
  /\ thr' = [thr EXCEPT ![t] = IdleThread]
  /\ IF StartRefused(o)
       THEN ok /\ UNCHANGED <<procs, child, mon, pidfile>>
       ELSE /\ CanSpawn(ok)
            /\ procs' = [procs EXCEPT ![o] = Started(procs[o], ok, pid)]
            /\ IF ok
                 THEN /\ child' = Append(child, NewChild(procs[o].name))
                      /\ mon' = Append(mon, [NoMon EXCEPT !.pc = "wait", !.obj = o])
                      /\ pidfile' = writePidFile(procs[o].name, pid)
                 ELSE UNCHANGED <<child, mon, pidfile>>
  /\ UNCHANGED <<registry, stopc, ctxDone, crashed, hc, aux>>

\* ---- Process.monitor -----------------------------------------------------
\* err := p.cmd.Wait() returns: the child is gone and has been waited for
MonitorWait(pid) ==
  /\ ~crashed
  /\ mon[pid].pc = "wait"
  /\ child[pid].st # "alive"
  /\ child' = [child EXCEPT ![pid].st = "reaped"]
  /\ mon' = [mon EXCEPT ![pid].pc = "exited"]
  /\ UNCHANGED <<procs, registry, pidfile, stopc, thr, ctxDone, crashed, hc, aux>>

\* lines 546-549: exitCode := p.cmd.ProcessState.ExitCode(); wasRunning.
\* p.cmd is read again here: nil after a stop cleared it (nil dereference),
\* another child's cmd after a Start in between
MonitorObserve(pid) ==
  LET o == mon[pid].obj IN
  /\ ~crashed
  /\ mon[pid].pc = "exited"
  /\ Free(o)
  /\ IF procs[o].cmd = 0
       THEN /\ crashed' = TRUE
            /\ UNCHANGED mon
       ELSE /\ mon' = IF procs[o].status = StatusRunning
                             THEN [mon EXCEPT ![pid].pc = "decide",
                                              ![pid].exitCode = ExitCode(procs[o].cmd)]
                             ELSE [mon EXCEPT ![pid].pc = "defer", ![pid].branch = "skip"]
            /\ UNCHANGED crashed
  /\ UNCHANGED <<procs, registry, child, pidfile, stopc, thr, ctxDone, hc, aux>>

\* line 562: the restart decision
ShouldRestart(p, exitCode) ==
  p.enabled /\ exitCode # 0 /\ p.restarts < MaxRetries

\* line 562, evaluated without the lock
MonitorCheck(pid) ==
  LET o == mon[pid].obj IN
  /\ ~crashed
  /\ mon[pid].pc = "decide"
  /\ mon' = [mon EXCEPT ![pid].pc = "apply",
                        ![pid].branch = IF ShouldRestart(procs[o], mon[pid].exitCode)
                                          THEN "restart" ELSE "failed"]
  /\ UNCHANGED <<procs, registry, child, pidfile, stopc, thr, ctxDone, crashed, hc, aux>>

\* a variant of MonitorApply that counts every observed exit, restarted or not
MonitorApplyCountsEveryExit(pid) ==
  LET o == mon[pid].obj IN
  /\ ~crashed
  /\ mon[pid].pc = "apply"
  /\ Free(o)
  /\ IF mon[pid].branch = "restart"
       THEN /\ procs' = [procs EXCEPT ![o].restarts = @ + 1,
                                      ![o].status = StatusStopped]
            /\ mon' = [mon EXCEPT ![pid].pc = "backoff", ![pid].exitCode = 0]
       ELSE /\ procs' = [procs EXCEPT ![o].restarts = @ + 1,
                                      ![o].status = StatusFailed]
            /\ mon' = [mon EXCEPT ![pid].pc = "defer", ![pid].exitCode = 0]
  /\ UNCHANGED <<registry, child, pidfile, stopc, thr, ctxDone, crashed, hc, aux>>

\* lines 563-566 (restart scheduled) or 584-586 (Failed)
MonitorApply(pid) ==
  LET o == mon[pid].obj IN
  /\ ~crashed
  /\ mon[pid].pc = "apply"
  /\ Free(o)
  /\ IF mon[pid].branch = "restart"
       THEN /\ procs' = [procs EXCEPT ![o].restarts = @ + 1,
                                      ![o].status = StatusStopped]
            /\ mon' = [mon EXCEPT ![pid].pc = "backoff", ![pid].exitCode = 0]
       ELSE /\ procs' = [procs EXCEPT ![o].status = StatusFailed]
            /\ mon' = [mon EXCEPT ![pid].pc = "defer", ![pid].exitCode = 0]
  /\ UNCHANGED <<registry, child, pidfile, stopc, thr, ctxDone, crashed, hc, aux>>

\* the backoff select, case <-ctx.Done(): return
MonitorBackoffCancelled(pid) ==
  /\ ~crashed
  /\ mon[pid].pc = "backoff"
  /\ ctxDone
  /\ mon' = [mon EXCEPT ![pid].pc = "defer", ![pid].branch = "cancelled"]
  /\ UNCHANGED <<procs, registry, child, pidfile, stopc, thr, ctxDone, crashed, hc, aux>>

\* the backoff select, case <-time.After(backoff), then p.Start(ctx)
MonitorRestart(pid, ok) ==
  LET o == mon[pid].obj
      new == Len(child) + 1
  IN
  /\ ~crashed
  /\ mon[pid].pc = "backoff"
  /\ Free(o)
  /\ IF StartRefused(o)
       THEN /\ ok
            /\ mon' = [mon EXCEPT ![pid].pc = "defer", ![pid].branch = "refused"]
            /\ UNCHANGED <<procs, child, pidfile>>
       ELSE /\ CanSpawn(ok)
            /\ procs' = [procs EXCEPT ![o] = Started(procs[o], ok, new)]
            /\ IF ok
                 THEN /\ child' = Append(child, NewChild(procs[o].name))
                      /\ mon' = Append([mon EXCEPT ![pid].pc = "defer",
                                                   ![pid].branch = "started"],
                                       [NoMon EXCEPT !.pc = "wait", !.obj = o])
                      /\ pidfile' = writePidFile(procs[o].name, new)
                 ELSE /\ mon' = [mon EXCEPT ![pid].pc = "defer",
                                            ![pid].branch = "spawnfail"]
                      /\ UNCHANGED <<child, pidfile>>
  /\ UNCHANGED <<registry, stopc, thr, ctxDone, crashed, hc, aux>>

\* the deferred function, lines 536-542
MonitorDefer(pid) ==
  LET o == mon[pid].obj IN
  /\ ~crashed
  /\ mon[pid].pc = "defer"
  /\ Free(o)
  /\ procs' = IF procs[o].status = StatusRunning
                THEN [procs EXCEPT ![o].status = StatusStopped]
                ELSE procs
  /\ mon' = [mon EXCEPT ![pid] = [NoMon EXCEPT !.pc = "done", !.obj = o]]
  /\ UNCHANGED <<registry, child, pidfile, stopc, thr, ctxDone, crashed, hc, aux>>

\* ---- the health prober (Checker.Start, checkApp, performCheck) -----------
HealthApp == "web"
InitialDelay == 5
Intervals == {2, InitialDelay, MaxInterval}

\* Checker.Start, called by Server.Start after its loop: one checkApp
\* goroutine for a Process whose Config has the health check enabled; the
\* ticker is created at once
CheckerStart(k, iv) ==
  /\ ~crashed
  /\ ~ctxDone
  /\ thr[ServerThread].pc = "done"
  /\ hc.pc = "off"
  /\ hc.first = 0
  /\ registry[HealthApp] # 0
  /\ ~IsRecovered(registry[HealthApp])
  /\ hc' = [NoProber EXCEPT !.pc = "delay", !.retries = k, !.interval = iv]
  /\ UNCHANGED <<procs, registry, child, mon, pidfile, stopc, thr, ctxDone, crashed, aux>>

\* one second passes while checkApp is blocked in a select none of whose
\* cases is ready; the ticker puts a tick into ticker.C (capacity 1) at every
\* multiple of the interval. Time is followed up to the first probe.
Second ==
  /\ ~crashed
  /\ ~ctxDone
  /\ hc.first = 0
  /\ \/ hc.pc = "delay" /\ hc.now < InitialDelay
     \/ hc.pc = "loop" /\ ~hc.tick
  /\ hc' = [hc EXCEPT !.now = hc.now + 1,
                      !.tick = hc.tick \/ (hc.now + 1) % hc.interval = 0]
  /\ UNCHANGED <<procs, registry, child, mon, pidfile, stopc, thr, ctxDone, crashed, aux>>

\* case <-time.After(5 * time.Second) of the first select
DelayOver ==
  /\ ~crashed
  /\ hc.pc = "delay"
  /\ hc.now >= InitialDelay
  /\ hc' = [hc EXCEPT !.pc = "loop"]
  /\ UNCHANGED <<procs, registry, child, mon, pidfile, stopc, thr, ctxDone, crashed, aux>>

\* case <-ctx.Done() of either select
ProberCancelled ==
  /\ ~crashed
  /\ ctxDone
  /\ hc.pc \in {"delay", "loop"}
  /\ hc' = [hc EXCEPT !.pc = "off"]
  /\ UNCHANGED <<procs, registry, child, mon, pidfile, stopc, thr, ctxDone, crashed, aux>>

\* getConsecutiveFailures, from the Status stored in c.results
getConsecutiveFailures(status) == IF status \in {"none", "healthy"} THEN 0 ELSE 1

\* the child behind Process o answers HTTP
Answers(o) == procs[o].process # 0 /\ child[procs[o].process].st = "alive"

\* case <-ticker.C: performCheck, and handleUnhealthyApp up to the call of
\* Manager.Restart; healthy is the outcome of the HTTP probe
performCheck(healthy) ==
  LET o == registry[HealthApp]
      probed == [hc EXCEPT !.tick = FALSE,
                           !.first = IF hc.first = 0 THEN hc.now ELSE hc.first]
  IN
  /\ ~crashed
  /\ hc.pc = "loop"
  /\ hc.tick \/ hc.first # 0
  /\ o # 0
  /\ Free(o)
  /\ IF ~IsRunning(o)
       THEN /\ healthy      \* no probe is made: one step for both values
            /\ hc' = [probed EXCEPT !.status = "unhealthy"]
            /\ procs' = AfterIsRunning(o)
            /\ UNCHANGED <<pidfile, stopc, thr>>
       ELSE IF healthy
         THEN /\ Answers(o)
              /\ hc' = [probed EXCEPT !.status = "healthy", !.failures = 0]
              /\ UNCHANGED <<procs, pidfile, stopc, thr>>
         ELSE LET failed == [probed EXCEPT !.status = "unhealthy",
                                          !.failures = hc.failures + 1]
              IN
              IF getConsecutiveFailures(failed.status) >= hc.retries /\ procs[o].enabled
                THEN /\ hc' = [failed EXCEPT !.pc = "restarting"]
                     /\ CallStop(Prober, o, [thr EXCEPT ![Prober].op = "restart"])
                ELSE /\ hc.failures < HealthRetries
                     /\ hc' = failed
                     /\ UNCHANGED <<procs, pidfile, stopc, thr>>
  /\ UNCHANGED <<registry, child, mon, ctxDone, crashed, aux>>

\* Manager.Restart has returned to handleUnhealthyApp: back to the select
\* (resetConsecutiveFailures is an empty function)
ProberResume ==
  /\ ~crashed
  /\ hc.pc = "restarting"
  /\ thr[Prober].pc = "idle"
  /\ hc' = [hc EXCEPT !.pc = "loop", !.failures = 0]
  /\ UNCHANGED <<procs, registry, child, mon, pidfile, stopc, thr, ctxDone, crashed, aux>>

\* ---- the configuration (config.Load -> Config.Validate) -------------------
\* a piece of text: its letters in lower case, whether some letter of it is
\* written in upper case, and whether it ends in a ":port" suffix
Txt(str) == [s |-> str, up |-> FALSE, port |-> FALSE]
Empty == Txt("")
ToLower(t) == [t EXCEPT !.up = FALSE]

\* fmt.Sprintf("%s.localhost", strings.ToLower(app.Name))
AutoHostname(name) == Txt(name \o ".localhost")

\* what the YAML of one app may say (name and command are never empty here)
Hostnames == {Empty, Txt("h.test"), [Txt("h.test") EXCEPT !.up = TRUE], Txt("web.localhost")}
Domains == {Empty, Txt("d.test")}
Ports == {0, 3000, 4000}
AppTLS == {[enabled |-> FALSE, autoCert |-> FALSE, email |-> FALSE],
           [enabled |-> FALSE, autoCert |-> TRUE, email |-> FALSE],
           [enabled |-> TRUE, autoCert |-> TRUE, email |-> FALSE],
           [enabled |-> TRUE, autoCert |-> TRUE, email |-> TRUE]}
AppConfigs == [name : Apps, hostname : Hostnames, domain : Domains, port : Ports,
               tls : AppTLS]
GlobalTLS == [autoCert : BOOLEAN, email : BOOLEAN]

MaxPort == 65535

\* findAvailablePort: the first port from `port` on that is not in portMap;
\* past 65535 the first free one from 3000 up to startPort, else startPort
RECURSIVE findFrom(_, _, _)
findFrom(portMap, port, last) ==
  IF port > last THEN 0
  ELSE IF port \notin portMap THEN port
  ELSE findFrom(portMap, port + 1, last)

findAvailablePort(portMap, startPort) ==
  LET up == findFrom(portMap, startPort, MaxPort)
      low == findFrom(portMap, 3000, startPort - 1)
  IN IF up # 0 THEN up ELSE IF low # 0 THEN low ELSE startPort

\* one turn of the loop of Validate over app i (1-based); v holds the apps
\* as rewritten so far, hostnameMap and portMap, and the error if any
ValidateApp(v, i, globalEmail) ==
  LET app == v.apps[i]
      hostname == IF app.hostname = Empty /\ app.domain # Empty THEN app.domain
                  ELSE IF app.hostname = Empty THEN AutoHostname(app.name)
                  ELSE app.hostname
      port == IF app.port <= 0
                THEN findAvailablePort(v.portMap, 3000 + (i - 1) * 1000)
                ELSE app.port
      done == [v.apps EXCEPT ![i].hostname = hostname, ![i].port = port]
  IN
  IF app.port > MaxPort
    THEN [v EXCEPT !.apps = [v.apps EXCEPT ![i].hostname = hostname], !.err = "port"]
  ELSE IF hostname \in v.hostnameMap
    THEN [v EXCEPT !.apps = done, !.err = "hostname"]
  ELSE IF port \in v.portMap
    THEN [v EXCEPT !.apps = done, !.err = "port"]
  ELSE IF app.tls.enabled /\ app.tls.autoCert /\ ~app.tls.email /\ ~globalEmail
    THEN [v EXCEPT !.apps = done, !.err = "email"]
  ELSE [v EXCEPT !.apps = done,
                 !.hostnameMap = v.hostnameMap \cup {hostname},
                 !.portMap = v.portMap \cup {port}]

RECURSIVE ValidateFrom(_, _, _)
ValidateFrom(v, i, globalEmail) ==
  IF i > Len(v.apps) \/ v.err # "none" THEN v
  ELSE ValidateFrom(ValidateApp(v, i, globalEmail), i + 1, globalEmail)

\* Config.Validate on configuration c: the apps as it leaves them and its error
Validate(c) ==
  ValidateFrom([apps |-> c.apps, hostnameMap |-> {}, portMap |-> {}, err |-> "none"],
               1, c.tls.email)

\* the configurations a file may hold
Configs ==
  {[apps |-> as, tls |-> g, tracking |-> FALSE, st |-> "loaded", err |-> "none"] :
     as \in UNION {[1..n -> AppConfigs] : n \in 0..MaxApps}, g \in GlobalTLS}

\* config.Load: Validate on what was read; an error makes Load fail
Load ==
  /\ cfg.st = "loaded"
  /\ LET v == Validate(cfg) IN
       cfg' = [cfg EXCEPT !.apps = v.apps, !.err = v.err,
                          !.st = IF v.err = "none" THEN "accepted" ELSE "rejected"]
  /\ UNCHANGED <<sup, px, lg, cm>>

\* ---- the proxy (Server.proxyRequest) --------------------------------------
\* the Host headers of the requests
Hosts == {Txt("d.test"), Txt("h.test"), [Txt("h.test") EXCEPT !.up = TRUE],
          [Txt("h.test") EXCEPT !.port = TRUE], Txt("web.localhost"), Txt("x.test")}

\* the loop of proxyRequest over s.config.Apps: the first app whose Domain is
\* the Host header, 0 when there is none
RECURSIVE targetFrom(_, _, _)
targetFrom(apps, host, i) ==
  IF i > Len(apps) THEN 0
  ELSE IF apps[i].domain = host THEN i
  ELSE targetFrom(apps, host, i + 1)

targetApp(host) == targetFrom(cfg.apps, host, 1)

\* injectTrackingHeader: the number of fresh UUIDs it appends to the chain of
\* the inbound header (no function of the proxy calls it)
injectTrackingHeader(tracking, inbound) == IF tracking THEN 1 ELSE 0

\* the Director of proxyRequest: the inbound headers are copied and the
\* X-Forwarded-* headers set; the tracking header is left as it came
Director(inbound) == 0

\* a request with Host header host and n UUIDs in its tracking header arrives:
\* 404 when no app is found, 503 when its Process is missing or not running,
\* else the request is handed to the reverse proxy
proxyRequest(host, n) ==
  LET i == targetApp(host)
      o == IF i = 0 THEN 0 ELSE registry[cfg.apps[i].name]
      r == [NoRequest EXCEPT !.host = host, !.app = i, !.inbound = n]
  IN
  /\ ~crashed
  /\ cfg.st = "accepted"
  /\ px.pc \in {"idle", "done"}
  /\ IF i = 0
       THEN /\ px' = [r EXCEPT !.pc = "done", !.status = 404, !.lines = 1]
            /\ UNCHANGED procs
       ELSE IF o = 0
         THEN /\ px' = [r EXCEPT !.pc = "done", !.status = 503, !.lines = 1]
              /\ UNCHANGED procs
       ELSE /\ Free(o)
            /\ procs' = AfterIsRunning(o)
            /\ px' = IF IsRunning(o)
                       THEN [r EXCEPT !.pc = "forward", !.fresh = Director(n)]
                       ELSE [r EXCEPT !.pc = "done", !.status = 503, !.lines = 1]
  /\ UNCHANGED <<registry, child, mon, pidfile, stopc, thr, ctxDone, crashed, hc,
                 cfg, lg, cm>>

\* the backend answers: its response is relayed, then the access-log line
\* is written
BackendAnswers ==
  /\ ~crashed
  /\ px.pc = "forward"
  /\ Answers(registry[cfg.apps[px.app].name])
  /\ px' = [px EXCEPT !.pc = "done", !.status = 200, !.lines = px.lines + 1]
  /\ UNCHANGED <<sup, cfg, lg, cm>>

\* the dial or the transport fails: proxy.ErrorHandler writes a 502 log line
\* and the 502 response; ServeHTTP returns and the line after it is written
BackendFails ==
  /\ ~crashed
  /\ px.pc = "forward"
  /\ px' = [px EXCEPT !.pc = "done", !.status = 502, !.lines = px.lines + 2]
  /\ UNCHANGED <<sup, cfg, lg, cm>>

\* ---- logs: CircularBuffer and LogManager (logs/buffer.go) ---------------
\* Add with the head left where it is when a full ring wraps
AddKeepsHead(cb, entry) ==
  LET t == (cb.tail + 1) % cb.size IN
  [cb EXCEPT !.buffer[cb.tail] = entry, !.tail = t,
             !.full = cb.full \/ t = cb.head]

Add(cb, entry) ==
  LET t == (cb.tail + 1) % cb.size
      h == IF cb.full THEN (cb.head + 1) % cb.size ELSE cb.head
  IN [cb EXCEPT !.buffer[cb.tail] = entry, !.tail = t, !.head = h,
                !.full = cb.full \/ t = h]

count(cb) == IF cb.full THEN cb.size ELSE cb.tail

GetLast(cb, n) ==
  IF n <= 0 \/ count(cb) = 0 THEN <<>>
  ELSE LET m == IF n > count(cb) THEN count(cb) ELSE n
           start == IF cb.full THEN (cb.tail - m + cb.size) % cb.size
                    ELSE IF m > cb.tail THEN 0 ELSE cb.tail - m
       IN [i \in 1..m |-> cb.buffer[(start + i - 1) % cb.size]]

GetAll(cb) ==
  IF count(cb) = 0 THEN <<>>
  ELSE [i \in 1..count(cb) |-> cb.buffer[(cb.head + i - 1) % cb.size]]

\* the tags that have a ring
GetProcessNames == {t \in LogTags : lg.buffers[t] # NoRing}

GetProcessLogs(process, n) ==
  IF process \in GetProcessNames THEN GetLast(lg.buffers[process], n) ELSE <<>>

\* one inner loop of the bubble sort: neighbours j, j+1 (from 1) are swapped
\* when the first is strictly After the second
RECURSIVE BubblePass(_, _, _)
BubblePass(es, j, last) ==
  IF j > last THEN es
  ELSE IF es[j].Timestamp > es[j + 1].Timestamp
       THEN BubblePass([es EXCEPT ![j] = es[j + 1], ![j + 1] = es[j]], j + 1, last)
       ELSE BubblePass(es, j + 1, last)

RECURSIVE BubbleSort(_, _)
BubbleSort(es, i) ==
  IF i >= Len(es) - 1 THEN es
  ELSE BubbleSort(BubblePass(es, 1, Len(es) - i - 1), i + 1)

RECURSIVE Collect(_)
Collect(order) ==
  IF order = <<>> THEN <<>>
  ELSE GetAll(lg.buffers[Head(order)]) \o Collect(Tail(order))

\* the orders in which ranging over the buffers map can visit the rings
MapOrders ==
  {order \in UNION {[1..k -> GetProcessNames] : k \in 0..Cardinality(LogTags)} :
     /\ Len(order) = Cardinality(GetProcessNames)
     /\ \A i, j \in 1..Len(order) : i # j => order[i] # order[j]}

GetAllLogs(order, n) ==
  LET allEntries == BubbleSort(Collect(order), 0) IN
  IF n > 0 /\ n < Len(allEntries)
  THEN SubSeq(allEntries, Len(allEntries) - n + 1, Len(allEntries))
  ELSE allEntries

\* LogManager.Log: the ring of the tag is made on first use; the entry is
\* stamped with time.Now(), which never runs backwards
Log(process) ==
  /\ Len(lg.hist) < MaxAppends
  /\ \E now \in {lg.now, lg.now + 1} :
       /\ now <= MaxClock
       /\ LET entry == [Timestamp |-> now, Process |-> process,
                        Message |-> Len(lg.hist) + 1]
              cb == IF lg.buffers[process] = NoRing
                    THEN NewCircularBuffer(LogCapacity) ELSE lg.buffers[process]
          IN lg' = [lg EXCEPT !.buffers[process] = Add(cb, entry), !.now = now,
                              !.hist = Append(lg.hist, entry)]
  /\ UNCHANGED <<sup, cfg, px, cm>>

\* GET /api/logs?process=&lines= : the tail of one tag, or the merged tail
Lines == 0..(LogCapacity + 1)
handleLogs(process, lines) ==
  /\ \E order \in MapOrders :
       lg' = [lg EXCEPT !.out =
                [kind |-> IF process # "" THEN "process" ELSE "all",
                 process |-> process, n |-> lines, at |-> Len(lg.hist),
                 res |-> IF process # "" THEN GetProcessLogs(process, lines)
                         ELSE GetAllLogs(order, lines)]]
  /\ UNCHANGED <<sup, cfg, px, cm>>

\* the window the stream asks for on every poll
StreamWindow == 1000

\* GET /api/logs/stream : remembers how many entries there are now
handleLogsStream(process) ==
  /\ lg.stream.pc = "closed"
  /\ \E order \in MapOrders :
       lg' = [lg EXCEPT !.stream =
                [pc |-> "open", process |-> process, sent |-> <<>>,
                 since |-> Len(lg.hist), seen |-> Len(lg.hist),
                 lastCount |-> IF process # ""
                               THEN Len(GetProcessLogs(process, StreamWindow))
                               ELSE Len(GetAllLogs(order, StreamWindow))]]
  /\ UNCHANGED <<sup, cfg, px, cm>>

\* one tick of the stream: what lies beyond lastCount is pushed
StreamTick ==
  /\ lg.stream.pc = "open"
  /\ \E order \in MapOrders :
       LET allEntries == IF lg.stream.process # ""
                         THEN GetProcessLogs(lg.stream.process, StreamWindow)
                         ELSE GetAllLogs(order, StreamWindow)
           grew == Len(allEntries) > lg.stream.lastCount
           newEntries == IF grew
                         THEN SubSeq(allEntries, lg.stream.lastCount + 1, Len(allEntries))
                         ELSE <<>>
       IN lg' = [lg EXCEPT !.stream.sent = lg.stream.sent \o newEntries,
                           !.stream.lastCount = IF grew THEN Len(allEntries)
                                                ELSE lg.stream.lastCount,
                           !.stream.seen = Len(lg.hist)]
  /\ UNCHANGED <<sup, cfg, px, cm>>

\* the client goes away: ctx.Done() ends the handler
StreamClosed ==
  /\ lg.stream.pc = "open"
  /\ lg' = [lg EXCEPT !.stream = NoStream]
  /\ UNCHANGED <<sup, cfg, px, cm>>

\* ---- certificates: the host policy of cert.Manager (cert/utils.go) --------
\* a DNS name is the sequence of its labels; a configured domain is a name,
\* written with a leading "*." when wild; an SNI host is a name with or
\* without a ":port" suffix
CertDomains == {[wild |-> FALSE, name |-> <<"d", "test">>],
                [wild |-> TRUE, name |-> <<"w", "test">>],
                [wild |-> FALSE, name |-> <<"a", "w", "test">>]}
SNINames == {<<"d", "test">>, <<"a", "d", "test">>, <<"w", "test">>,
             <<"a", "w", "test">>, <<"b", "w", "test">>, <<"x", "test">>,
             <<"test">>}
SNIHosts == [name : SNINames, port : BOOLEAN]

\* strings.HasSuffix(host, "." + baseDomain): the labels of baseDomain end
\* the host, after at least one more label
HasDotSuffix(host, baseDomain) ==
  /\ Len(host) > Len(baseDomain)
  /\ SubSeq(host, Len(host) - Len(baseDomain) + 1, Len(host)) = baseDomain

\* a host policy that takes every configured domain for a wildcard
PolicyOfSubdomains(domains, host) ==
  \E i \in 1..Len(domains) :
    host.name = domains[i].name \/ HasDotSuffix(host.name, domains[i].name)

\* the function createHostPolicy returns: the port suffix is cut off (only
\* the name is compared); the host is authorized when it is a configured
\* domain as written, or when a configured domain is "*.base" and the host
\* is base or ends with ".base"
createHostPolicy(domains, host) ==
  \E i \in 1..Len(domains) :
    \/ ~domains[i].wild /\ host.name = domains[i].name
    \/ /\ domains[i].wild
       /\ HasDotSuffix(host.name, domains[i].name) \/ host.name = domains[i].name

\* autocert asks the policy about the server name of a handshake
HostPolicy(host) ==
  /\ cm' = [cm EXCEPT !.host = host,
                      !.res = IF createHostPolicy(cm.domains, host)
                              THEN "authorized" ELSE "denied"]
  /\ UNCHANGED <<sup, cfg, px, lg>>

\* ---- shutdown: runStart cancels ctx, Server.Stop calls Manager.StopAll ---
Cancel ==
  /\ ~crashed
  /\ thr[ShutdownThread].pc = "idle"
  /\ ctxDone' = TRUE
  /\ thr' = [thr EXCEPT ![ShutdownThread].pc = "cancelled", ![ShutdownThread].op = "stopall"]
  /\ UNCHANGED <<procs, registry, child, mon, pidfile, stopc, crashed, hc, aux>>

\* Server.Stop up to the call of StopAll: healthChecker.Stop() (an empty
\* function) and the Shutdown of the HTTP and HTTPS listeners
ServerStop ==
  /\ ~crashed
  /\ thr[ShutdownThread].pc = "cancelled"
  /\ thr' = [thr EXCEPT ![ShutdownThread].pc = "drained"]
  /\ UNCHANGED <<procs, registry, child, mon, pidfile, stopc, ctxDone, crashed, hc, aux>>

\* lines 169-174: the snapshot of m.processes
StopAllBegin ==
  /\ ~crashed
  /\ thr[ShutdownThread].pc = "drained"
  /\ thr' = [thr EXCEPT ![ShutdownThread].pc = "loop",
                        ![ShutdownThread].todo = {registry[a] : a \in Apps} \ {0}]
  /\ UNCHANGED <<procs, registry, child, mon, pidfile, stopc, ctxDone, crashed, hc, aux>>

\* lines 177-181: the next proc.Stop(ctx) of the loop (map order is arbitrary)
StopAllNext(o) ==
  /\ ~crashed
  /\ thr[ShutdownThread].pc = "loop"
  /\ o \in thr[ShutdownThread].todo
  /\ CallStop(ShutdownThread, o, [thr EXCEPT ![ShutdownThread].todo = @ \ {o}])
  /\ UNCHANGED <<hc, aux>>

\* lines 183-187
StopAllReturn ==
  /\ ~crashed
  /\ thr[ShutdownThread].pc = "loop"
  /\ thr[ShutdownThread].todo = {}
  /\ thr' = [thr EXCEPT ![ShutdownThread].pc = "done"]
  /\ UNCHANGED <<procs, registry, child, mon, pidfile, stopc, ctxDone, crashed, hc, aux>>

\* ---- EnhancedManager.StopAllWithResults -----------------------------------
\* the registered Processes of which IsRunning is called under m.mu
Registered == {registry[a] : a \in Apps} \ {0}

\* lines 48-76: the snapshot of the processes that report IsRunning, and one
\* goroutine per process of the snapshot
StopAllWithResults ==
  LET snap == {a \in Apps : registry[a] # 0 /\ IsRunning(registry[a])} IN
  /\ ~crashed
  /\ thr[Caller].pc = "idle"
  /\ \A o \in Registered : Free(o)
  /\ snap # {}
  /\ procs' = [o \in Objs |-> IF o \in Registered THEN AfterIsRunning(o)[o] ELSE procs[o]]
  /\ thr' = [t \in Threads |->
               IF t = Caller THEN [thr[t] EXCEPT !.pc = "wgwait", !.op = "stopallres"]
               ELSE IF \E a \in snap : t = WorkerOf[a]
                 THEN [thr[t] EXCEPT !.pc = "wstart", !.op = "result",
                                     !.obj = registry[CHOOSE a \in snap : t = WorkerOf[a]]]
               ELSE thr[t]]
  /\ UNCHANGED <<registry, child, mon, pidfile, stopc, ctxDone, crashed, hc, aux>>

\* stopProcessWithResult, lines 113-124: start := time.Now(); IsRunning
WorkerCheck(w) ==
  LET o == thr[w].obj IN
  /\ ~crashed
  /\ thr[w].pc = "wstart"
  /\ Free(o)
  /\ procs' = AfterIsRunning(o)
  /\ thr' = IF IsRunning(o)
              THEN [thr EXCEPT ![w].pc = "wstop"]
              ELSE [thr EXCEPT ![w].pc = "wdone", ![w].res = "not_running"]
  /\ UNCHANGED <<registry, child, mon, pidfile, stopc, ctxDone, crashed, hc, aux>>

\* stopProcessWithResult, line 139: proc.Stop(ctx)
WorkerStop(w) ==
  /\ ~crashed
  /\ thr[w].pc = "wstop"
  /\ CallStop(w, thr[w].obj, thr)
  /\ UNCHANGED <<hc, aux>>

\* lines 78-108: wg.Wait(), then the counts and the combined error
StopAllWithResultsReturn ==
  /\ ~crashed
  /\ thr[Caller].pc = "wgwait"
  /\ \A w \in Workers : thr[w].pc \in {"idle", "wdone"}
  /\ thr' = [thr EXCEPT ![Caller].pc = "done",
                        ![Caller].errs = Cardinality({w \in Workers : thr[w].res = "error"})]
  /\ UNCHANGED <<procs, registry, child, mon, pidfile, stopc, ctxDone, crashed, hc, aux>>

\* ---- the specification of one supervised app with shutdown ---------------
\* the apps in A under supervision, the run using at most cap process ids
Watch(A, cap) ==
  \/ \E a \in A : ProbeIsRunning(a)
  \/ \E pid \in Pids, code \in {0, 1} : ChildExit(pid, code)
  \/ \E pid \in Pids : MonitorWait(pid)
  \/ \E pid \in Pids : MonitorObserve(pid)
  \/ \E pid \in Pids : MonitorCheck(pid)
  \/ \E pid \in Pids : MonitorApply(pid)
  \/ \E pid \in Pids, ok \in BOOLEAN :
       MonitorRestart(pid, ok) /\ Len(child') <= cap
  \/ \E pid \in Pids : MonitorDefer(pid)

Supervise(A, cap) ==
  \/ \E a \in A, en \in BOOLEAN, ok \in BOOLEAN :
       ManagerStart(a, en, ok) /\ Len(child') <= cap
  \/ Watch(A, cap)

\* Manager.Start for an app that has no Process yet, or only the one
\* recovered at construction
StartOnce(A, cap) ==
  \E a \in A, en \in BOOLEAN, ok \in BOOLEAN :
    /\ ~ctxDone
    /\ IF registry[a] = 0 THEN TRUE ELSE IsRecovered(registry[a])
    /\ ManagerStart(a, en, ok)
    /\ Len(child') <= cap

\* Server.Start over the configured apps A
Boot(A, cap) ==
  \/ ServerStart(A)
  \/ \E a \in A, en \in BOOLEAN, ok \in BOOLEAN :
       ServerStartApp(a, en, ok) /\ Len(child') <= cap
  \/ ServerStartReturn

\* runStart on a signal: cancel(), then Server.Stop -> Manager.StopAll with
\* the cancelled ctx; every select of a stop then has its ctx.Done case ready
Shutdown ==
  \/ Cancel
  \/ \E pid \in Pids : CtxKill(pid)
  \/ \E pid \in Pids : MonitorBackoffCancelled(pid)
  \/ ServerStop
  \/ StopAllBegin
  \/ \E o \in Objs : StopAllNext(o)
  \/ \E o \in Objs : StopCtxDone(o)
  \/ \E o \in Objs : StopDone(o)
  \/ StopAllReturn

Next ==
  \/ Supervise({"web"}, MaxPids)
  \/ Shutdown

Spec == Init /\ [][Next]_vars

\* ---- the same, for the supervision loop on its own -----------------------
NextLoop ==
  \/ Supervise({"web"}, LoopPids)
  \/ Shutdown

SpecLoop == Init /\ [][NextLoop]_vars

InitFleet == InitOver(Apps)

\* ---- the server as runStart runs it: boot, supervision, shutdown ----------
NextServer ==
  \/ Boot({"web"}, LoopPids)
  \/ Watch({"web"}, LoopPids)
  \/ Shutdown

\* the scheduling the Go runtime and the kernel give: a runnable goroutine
\* runs, a SIGKILL is delivered, a ready select returns
LoopStep ==
  \/ \E pid \in Pids : CtxKill(pid)
  \/ \E pid \in Pids : MonitorWait(pid)
  \/ \E pid \in Pids : MonitorObserve(pid)
  \/ \E pid \in Pids : MonitorCheck(pid)
  \/ \E pid \in Pids : MonitorApply(pid)
  \/ \E pid \in Pids : MonitorBackoffCancelled(pid)
  \/ \E pid \in Pids : MonitorDefer(pid)
  \/ \E o \in Objs : StopCtxDone(o)

LoopFairness == WF_vars(LoopStep)

SpecServer == Init /\ [][NextServer]_vars /\ LoopFairness

\* ---- the specification of one app operated through the Manager API -------
Operate(A, cap) ==
  \/ \E a \in A : ManagerStop(Caller, a)
  \/ \E a \in A : ManagerRestart(Caller, a)
  \/ \E ok \in BOOLEAN : RestartStart(Caller, ok) /\ Len(child') <= cap
  \/ \E o \in Objs : WindowExpire(o)
  \/ \E o \in Objs : StopDone(o)
  \/ \E o \in Objs : StopTimeout(o)

NextOps ==
  \/ Supervise({"web"}, OpsPids)
  \/ Operate({"web"}, OpsPids)

SpecOps == Init /\ [][NextOps]_vars

\* ---- the specification of the fleet of two apps with shutdown ------------

NextFleet ==
  \/ Supervise(Apps, FleetPids)
  \/ Shutdown

SpecFleet == InitFleet /\ [][NextFleet]_vars

\* ---- the specification of the fleet operated through the Manager API -----
NextFleetOps ==
  \/ Supervise(Apps, FleetPids)
  \/ Operate(Apps, FleetPids)

SpecFleetOps == InitFleet /\ [][NextFleetOps]_vars

\* ---- the specification of one app restarted by the user and the prober ---
Restarters == {Caller, Prober}

NextRestart ==
  \/ Boot({"web"}, LoopPids)
  \/ Watch({"web"}, LoopPids)
  \/ \E t \in Restarters : ManagerRestart(t, "web")
  \/ \E t \in Restarters, ok \in BOOLEAN :
       RestartStart(t, ok) /\ Len(child') <= LoopPids
  \/ \E o \in Objs : WindowExpire(o)
  \/ \E o \in Objs : StopDone(o)
  \/ \E o \in Objs : StopTimeout(o)

SpecRestart == Init /\ [][NextRestart]_vars

\* ---- the specification of one app started once and restarted by the user -
NextSpawn ==
  \/ StartOnce({"web"}, LoopPids)
  \/ Watch({"web"}, LoopPids)
  \/ ManagerRestart(Caller, "web")
  \/ \E ok \in BOOLEAN : RestartStart(Caller, ok) /\ Len(child') <= LoopPids
  \/ \E o \in Objs : WindowExpire(o)
  \/ \E o \in Objs : StopDone(o)
  \/ \E o \in Objs : StopTimeout(o)

SpecSpawn == Init /\ [][NextSpawn]_vars

\* ---- the specification of the server with the health prober -------------
Probing ==
  \/ \E k \in 1..HealthRetries, iv \in Intervals : CheckerStart(k, iv)
  \/ Second
  \/ DelayOver
  \/ ProberCancelled
  \/ \E healthy \in BOOLEAN : performCheck(healthy)
  \/ ProberResume
  \/ \E ok \in BOOLEAN : RestartStart(Prober, ok) /\ Len(child') <= LoopPids
  \/ \E o \in Objs : WindowExpire(o)
  \/ \E o \in Objs : StopTimeout(o)

NextHealth ==
  \/ NextServer
  \/ Probing

SpecHealth == Init /\ [][NextHealth]_vars

\* the same with the goroutines scheduled: the prober's timers fire and its
\* ready selects return, the supervision loops run
SpecHealthFair == SpecHealth /\ WF_vars(Probing) /\ LoopFairness

\* ---- the specification of loading a configuration -----------------------
InitConfig ==
  /\ NewManager([a \in Apps |-> "none"])
  /\ thr = [t \in Threads |-> IdleThread]
  /\ ctxDone = FALSE
  /\ crashed = FALSE
  /\ hc = NoProber
  /\ cfg \in Configs
  /\ px = NoRequest
  /\ lg = NoLogs
  /\ cm = NoCerts

NextConfig == Load

SpecConfig == InitConfig /\ [][NextConfig]_vars

\* ---- the specification of the proxy in front of one supervised app ------
\* one app web, with a hostname, a domain, both or neither; tracking on or off
ProxyConfigs ==
  {[apps |-> <<[name |-> "web", hostname |-> h, domain |-> d, port |-> 0,
                tls |-> [enabled |-> FALSE, autoCert |-> FALSE, email |-> FALSE]]>>,
    tls |-> [autoCert |-> FALSE, email |-> FALSE],
    tracking |-> t, st |-> "loaded", err |-> "none"] :
     h \in {Empty, Txt("h.test")}, d \in Domains, t \in BOOLEAN}

InitProxy ==
  /\ NewManager([a \in Apps |-> "none"])
  /\ thr = [t \in Threads |-> IdleThread]
  /\ ctxDone = FALSE
  /\ crashed = FALSE
  /\ hc = NoProber
  /\ cfg \in ProxyConfigs
  /\ px = NoRequest
  /\ lg = NoLogs
  /\ cm = NoCerts

NextProxy ==
  \/ Load
  \/ Boot({"web"}, LoopPids)
  \/ Watch({"web"}, LoopPids)
  \/ \E host \in Hosts, n \in 0..1 : proxyRequest(host, n)
  \/ BackendAnswers
  \/ BackendFails

SpecProxy == InitProxy /\ [][NextProxy]_vars

\* ---- the specification of StopAllWithResults over the fleet ---------------
\* the log manager and the readers of its rings
NextLogs ==
  \/ \E process \in LogTags : Log(process)
  \/ \E process \in LogTags \cup {""}, lines \in Lines : handleLogs(process, lines)

SpecLogs == Init /\ [][NextLogs]_vars

\* the log manager and one client of the log stream
NextStream ==
  \/ \E process \in LogTags : Log(process)
  \/ \E process \in LogTags \cup {""} : handleLogsStream(process)
  \/ StreamTick
  \/ StreamClosed

SpecStream == Init /\ [][NextStream]_vars

\* ---- the specification of the certificate host policy --------------------
\* cert.New over every list of one or two configured domains
InitCerts ==
  /\ NewManager([a \in Apps |-> "none"])
  /\ thr = [t \in Threads |-> IdleThread]
  /\ ctxDone = FALSE
  /\ crashed = FALSE
  /\ hc = NoProber
  /\ cfg = NoConfig
  /\ px = NoRequest
  /\ lg = NoLogs
  /\ cm \in {[NoCerts EXCEPT !.domains = ds] :
               ds \in UNION {[1..n -> CertDomains] : n \in 1..2}}

NextCerts == \E host \in SNIHosts : HostPolicy(host)

SpecCerts == InitCerts /\ [][NextCerts]_vars

Results ==
  \/ StopAllWithResults
  \/ \E w \in Workers : WorkerCheck(w)
  \/ \E w \in Workers : WorkerStop(w)
  \/ \E o \in Objs : WindowExpire(o)
  \/ \E o \in Objs : StopDone(o)
  \/ \E o \in Objs : StopTimeout(o)
  \/ StopAllWithResultsReturn

NextApi ==
  \/ Supervise(Apps, ApiPids)
  \/ Results

SpecApi == InitFleet /\ [][NextApi]_vars

TypeOK ==
  /\ registry \in [Apps -> 0..MaxObjs]
  /\ pidfile \in [Apps -> 0..MaxPids]
  /\ Len(procs) <= MaxObjs
  /\ Len(child) <= MaxPids
  /\ Len(mon) = Len(child)
  /\ Len(stopc) = Len(procs)

\* ---- the properties -------------------------------------------------------
\* the children of app a that are alive
LiveChildren(a) == {pid \in Pids : child[pid].app = a /\ child[pid].st = "alive"}

\* every supervision loop of Process o has returned
LoopsDone(o) == \A pid \in Pids : mon[pid].obj = o => mon[pid].pc = "done"

\* the step kills the live child of Process o with SIGKILL
KilledInStep(o) ==
  /\ procs[o].process # 0
  /\ child[procs[o].process].st = "alive"
  /\ child'[procs[o].process].st # "alive"
  /\ child'[procs[o].process].code = -1

\* C1: once the supervision loop has restarted a crashed child (restartCount
\* was incremented and start was called), the Process is Running again with
\* the new child: as long as that child lives and nobody stops the Process
\* or shuts the supervisor down, its state is Running.
C1_RestartedIsRunning ==
  \A o \in Objs :
    ( /\ procs[o].restarts > 0
      /\ procs[o].cmd # 0
      /\ child[procs[o].cmd].st = "alive"
      /\ Free(o)
      /\ ~ctxDone
      /\ ~crashed )
    => procs[o].status = StatusRunning

\* C2: at most one live OS child exists per app name, whatever the
\* interleaving of Manager.Start calls and crash-triggered restarts.
C2_OneLiveChild == \A a \in Apps : Cardinality(LiveChildren(a)) <= 1

\* C3: whenever the registered Process of an app is Running, the PID file of
\* the app exists and holds exactly the pid of the Process's current child.
C3_PidFileOfRunning ==
  \A a \in Apps :
    (registry[a] # 0 /\ procs[registry[a]].status = StatusRunning)
    => (pidfile[a] # 0 /\ pidfile[a] = procs[registry[a]].process)

\* a call of Process.Stop on Process o, Running when called, returns in the step
StopReturns(o) ==
  /\ thr' # thr
  /\ procs[o].status \in {StatusRunning, StatusStopping}
  /\ procs'[o].status \notin {StatusRunning, StatusStopping}

\* C4: when a stop of a Running Process returns, the state is Stopped, the
\* child is no longer alive and the PID file is removed; also for a Process
\* recovered from a PID file.
C4_StoppedMeansGone ==
  [][\A o \in Objs :
       StopReturns(o)
       => /\ procs'[o].status = StatusStopped
          /\ pidfile'[procs[o].name] = 0
          /\ procs[o].process # 0 => child'[procs[o].process].st # "alive"]_vars

\* C5: a stop force-kills the child only once the 10 s graceful window since
\* the termination request has elapsed, also during shutdown when the ctx is
\* already cancelled.
C5_NoKillInsideWindow ==
  [][\A o \in Objs :
       (stopc[o].active /\ ~stopc'[o].active /\ KilledInStep(o))
       => stopc[o].expired]_vars

\* C6: an app whose child crashes on every run ends Failed once restartCount
\* equals maxRetries: when the last child has exited non-zero with the retries
\* exhausted and every supervision loop has returned, the state is Failed.
C6_ExhaustedIsFailed ==
  \A o \in Objs :
    ( /\ procs[o].enabled
      /\ procs[o].restarts >= MaxRetries
      /\ procs[o].cmd # 0
      /\ child[procs[o].cmd].st = "reaped"
      /\ child[procs[o].cmd].code = 1
      /\ LoopsDone(o)
      /\ registry[procs[o].name] = o
      /\ ~ctxDone
      /\ ~crashed )
    => procs[o].status = StatusFailed

\* C7: a child that exits with status 0 while its Process is Running moves
\* the Process to Stopped (not Failed).
C7_CleanExitStops ==
  [][\A pid \in Pids :
       (mon[pid].pc = "apply" /\ mon[pid].exitCode = 0 /\ mon'[pid].pc # "apply")
       => procs'[mon[pid].obj].status = StatusStopped]_vars

\* a supervision loop that is returning has incremented restartCount for its
\* exit / has called start
Incremented(pid) == mon[pid].branch \in {"cancelled", "refused", "started", "spawnfail"}

StartCalled(pid) == mon[pid].branch \in {"refused", "started", "spawnfail"}

\* C8 as stated: restartCount is incremented for an observed exit if and only
\* if that exit results in start being called.
C8_CountIffStartCalled ==
  \A pid \in Pids : mon[pid].pc = "defer" => (Incremented(pid) <=> StartCalled(pid))

\* C8, amended: restartCount increases by exactly one in the step in which
\* the supervision loop schedules a restart (it then waits the backoff), and
\* in no other step; the loop that scheduled the restart goes on to call
\* start unless the ctx is cancelled during the backoff.
C8_CountIffRestartScheduled ==
  /\ [][\A o \in Objs :
          LET scheduled == \E pid \in Pids : /\ mon[pid].obj = o
                                             /\ mon[pid].pc = "apply"
                                             /\ mon'[pid].pc = "backoff"
          IN IF scheduled THEN procs'[o].restarts = procs[o].restarts + 1
                          ELSE procs'[o].restarts = procs[o].restarts]_vars
  /\ [](\A pid \in Pids :
          (mon[pid].pc = "defer" /\ Incremented(pid) /\ ~StartCalled(pid)) => ctxDone)

\* a loop that incremented restartCount returns without calling start
C8_Witness ==
  \E pid \in Pids :
    /\ mon[pid].pc = "defer"
    /\ mon[pid].branch = "cancelled"
    /\ procs[mon[pid].obj].restarts = 1

\* C9: a worker of StopAllWithResults reports killed exactly when the graceful
\* stop exceeded the 10 s window and the child was force-killed, and stopped
\* only when the child exited within the window.
C9_KilledIffForceKilled ==
  [][\A w \in Workers :
       LET o == thr[w].obj IN
       (thr[w].res = "none" /\ thr'[w].res \in {"killed", "stopped"})
       => /\ thr'[w].res = "killed"
               <=> (stopc[o].active /\ stopc[o].expired /\ KilledInStep(o))
          /\ thr'[w].res = "stopped"
               => /\ ~stopc[o].expired
                  /\ procs[o].process # 0 => child'[procs[o].process].st # "alive"]_vars

\* C10: when a stop of Manager.StopAll has failed, StopAll still calls Stop on
\* every other process of its snapshot: it is never cut short, with a failed
\* stop behind it and processes of the snapshot not yet attempted.
C10_FailedStopDoesNotAbort ==
  ~( /\ crashed
     /\ thr[ShutdownThread].pc \in {"loop", "instop"}
     /\ thr[ShutdownThread].errs > 0
     /\ thr[ShutdownThread].todo # {} )

\* C11: a failure of one app (its child crashing, failing to spawn, being
\* stopped or force-killed) never brings down the supervisor, and a step that
\* changes the Process of one app leaves the Processes of the other apps as
\* they are.
C11_FailureIsIsolated ==
  /\ [](~crashed)
  /\ [][\A o1, o2 \in Objs :
          (procs[o1].name # procs[o2].name /\ procs'[o1] # procs[o1])
          => procs'[o2] = procs[o2]]_vars

\* every supervision loop has returned (or never existed)
LoopsEnded == \A pid \in Pids : mon[pid].pc \in {"none", "done"}

InRestart(t, o) ==
  /\ thr[t].op = "restart"
  /\ thr[t].pc \in {"instop", "sleep"}
  /\ thr[t].obj = o

\* C13: concurrent restart requests for the same app (health prober and
\* user) are serialized: while one is between its stop and the return of its
\* start the other performs no step of its own restart, and the start of
\* neither is refused while the other restart was in progress.
C13_RestartsSerialized ==
  [][\A t, u \in Restarters : \A o \in Objs :
       (t # u /\ InRestart(u, o))
       => /\ ~(thr[t].pc = "idle" /\ thr'[t].pc # "idle" /\ thr'[t].obj = o)
          /\ ~(thr[t].pc = "sleep" /\ thr'[t].pc = "idle" /\ thr[t].obj = o)]_vars
\* the step is a call of Process.IsRunning that writes the status: the only
\* lock it holds is the read lock p.mu.RLock(), shared with other readers
SharedLockStep == \E a \in Apps : ProbeIsRunning(a)

\* C14: every change of a Process's state (by isRunning, the supervision
\* loop, stop or force-kill) is made while that Process's mutex is held
\* exclusively: no step that holds only the shared lock changes a status.
C14_StateChangeUnderLock ==
  [][\A o \in Objs : procs'[o].status # procs[o].status => ~SharedLockStep]_vars
\* the step is a start of Process o whose child cannot be spawned: cmd.Start
\* fails in Manager.Start, in the Start of Process.Restart, or in the Start
\* the supervision loop calls after its backoff
SpawnFails(o) ==
  \/ /\ o = Len(procs) + 1
     /\ \E a \in Apps, en \in BOOLEAN : ManagerStartCall(a, en, FALSE)
  \/ \E t \in Threads :
       /\ thr[t].pc = "sleep"
       /\ thr[t].obj = o
       /\ ~StartRefused(o)
       /\ RestartStart(t, FALSE)
  \/ \E pid \in Pids :
       /\ mon[pid].pc = "backoff"
       /\ mon[pid].obj = o
       /\ ~StartRefused(o)
       /\ MonitorRestart(pid, FALSE)

\* C15: when the child cannot be spawned the start leaves the Process Failed,
\* creates no child and starts no supervision loop, and a loop whose own
\* start failed returns without another backoff or start: the restart policy
\* is not applied to the failed spawn.
C15_SpawnFailureIsFailed ==
  /\ [][\A o \in 1..MaxObjs :
          SpawnFails(o)
          => /\ procs'[o].status = StatusFailed
             /\ child' = child
             /\ Len(mon') = Len(mon)
             /\ \A pid \in Pids : mon'[pid].pc = "wait" => mon[pid].pc = "wait"]_vars
  /\ [][\A pid \in Pids :
          mon[pid].branch = "spawnfail" => mon'[pid].pc \in {"defer", "done"}]_vars

\* a Process is Failed whose start never spawned a child (it has no loop), and
\* a loop is about to return after its own start failed to spawn
C15_Witness ==
  /\ \E o \in Objs :
       /\ procs[o].status = StatusFailed
       /\ \A pid \in Pids : mon[pid].obj # o
  /\ \E pid \in Pids :
       /\ mon[pid].branch = "spawnfail"
       /\ procs[mon[pid].obj].status = StatusFailed
\* C16: right after construction (no child spawned yet) every Process
\* recovered from a PID file whose pid is alive is registered under the
\* file's stem, is Running, and its pid accessor reports the recovered pid
\* (stale PID files have been removed, so every file left belongs to such a
\* Process).
C16_RecoveredReportsPid ==
  \A a \in Apps :
    (registry[a] # 0 /\ IsRecovered(registry[a]) /\ Pids = Objs)
    => /\ procs[registry[a]].name = a
       /\ procs[registry[a]].status = StatusRunning
       /\ pidfile[a] = procs[registry[a]].process
       /\ GetPID(registry[a]) = procs[registry[a]].process
\* C17: once Server.Start has gone through the configured apps, the Process
\* registered for an app is never the bare one recovered from the PID file
\* (Config holding the name only, restart policy off): it carries the
\* AppSpec of the config.
C17_RecoveredCarriesAppSpec ==
  thr[ServerThread].pc = "done"
  => \A a \in Apps : registry[a] # 0 => ~IsRecovered(registry[a])
\* C18: a probe of the health prober invokes the restart if and only if the
\* failed probes in a row have reached `retries` and the Process's restart
\* policy is enabled: with retries = k > 1, fewer than k failures never
\* restart and k failures do.
C18_RestartIffRetriesReached ==
  [][(\E healthy \in BOOLEAN : performCheck(healthy))
     => (hc'.pc = "restarting"
         <=> (hc'.failures >= hc.retries /\ procs[registry[HealthApp]].enabled))]_vars
\* the app of the prober has a Process with the restart policy enabled and
\* no Running child, while the prober is at its select
Down ==
  /\ hc.pc = "loop"
  /\ registry[HealthApp] # 0
  /\ procs[registry[HealthApp]].enabled
  /\ ~IsRunning(registry[HealthApp])

\* the app of the prober has a Running child: its requests are proxied
Up == IF registry[HealthApp] = 0 THEN FALSE ELSE IsRunning(registry[HealthApp])

\* C19: when a configured app with health checks and the restart policy
\* enabled has no Running child (its requests are answered 503), the prober
\* eventually restarts it and it is Running again, unless the supervisor is
\* shut down or goes down first.
C19_DownLeadsToRestart ==
  Down ~> (Up \/ ctxDone \/ crashed)
\* C20: the first probe is performed exactly 5 s after the prober starts,
\* whatever the interval.
C20_FirstProbeAfterDelay == hc.first # 0 => hc.first = InitialDelay
\* C29: every configuration accepted by validation has pairwise distinct app
\* names, hostnames (after auto-generation) and ports (after auto-assignment).
C29_AcceptedAppsAreDistinct ==
  cfg.st = "accepted"
  => \A i, j \in 1..Len(cfg.apps) :
       i # j => /\ cfg.apps[i].name # cfg.apps[j].name
                /\ cfg.apps[i].hostname # cfg.apps[j].hostname
                /\ cfg.apps[i].port # cfg.apps[j].port

\* C30: validation rejects every configuration in which some tls.autoCert
\* (global or of an app) is true while no email is set at the app's scope
\* nor at the global scope.
C30_AutoCertNeedsEmail ==
  cfg.st = "accepted"
  => /\ cfg.tls.autoCert => cfg.tls.email
     /\ \A i \in 1..Len(cfg.apps) :
          cfg.apps[i].tls.autoCert => (cfg.apps[i].tls.email \/ cfg.tls.email)
\* the Host header without its port suffix
StripPort(h) == [h EXCEPT !.port = FALSE]

\* app i of the configuration is the one the request's Host names: its
\* hostname equals the Host without port, letter case ignored
Matches(i, host) == ToLower(StripPort(host)) = ToLower(cfg.apps[i].hostname)

\* the step takes a request in and decides its case
Decides == px.pc \in {"idle", "done"} /\ px' # px

\* some app matches the Host of the request just taken in, and the Process
\* of such an app is Running
MatchedNow == \E i \in 1..Len(cfg.apps) : Matches(i, px'.host)
RunningNow ==
  \E i \in 1..Len(cfg.apps) :
    /\ Matches(i, px'.host)
    /\ registry[cfg.apps[i].name] # 0
    /\ procs'[registry[cfg.apps[i].name]].status = StatusRunning

DecidedByCase ==
  /\ (px'.status = 404) <=> ~MatchedNow
  /\ (px'.status = 503) <=> (MatchedNow /\ ~RunningNow)
  /\ (px'.pc = "forward") <=> RunningNow

\* C21: each request is answered by exactly one case: 404 iff no app matches
\* the Host, 503 iff an app matches and its Process is not Running; only a
\* request to an app whose Process is Running is forwarded, and a forwarded
\* request ends as 502 (backend failure) or as the relayed response.
C21_OneCasePerRequest ==
  /\ [][Decides => DecidedByCase]_vars
  /\ [][(px.pc = "forward" /\ px'.pc = "done") => px'.status \in {200, 502}]_vars

\* C22: a request is routed to the app whose hostname equals its Host header,
\* letter case ignored and the port suffix stripped; an app that has only a
\* hostname (given or auto-generated) is reached under it.
C22_RoutedByHostname ==
  px.pc # "idle"
  => \A i \in 1..Len(cfg.apps) : Matches(i, px.host) <=> px.app = i

\* C23: with tracking enabled, a forwarded request carries the inbound
\* tracking chain followed by exactly one fresh UUID.
C23_OneFreshUUIDPerHop ==
  (cfg.tracking /\ (px.pc = "forward" \/ px.status \in {200, 502}))
  => px.fresh = 1

\* C24: exactly one access-log line is written per request, whatever its
\* outcome (relayed, 404, 503, 502).
C24_OneLogLinePerRequest == px.pc = "done" => px.lines = 1
\* the entries appended under a tag among the first k appends, in order
AppendedTo(tag, k) ==
  SelectSeq(SubSeq(lg.hist, 1, k), LAMBDA e : e.Process = tag)

\* the last n elements of a sequence that has at least n
LastOf(es, n) == SubSeq(es, Len(es) - n + 1, Len(es))

Min(a, b) == IF a < b THEN a ELSE b

\* C25: a ring of capacity N never holds more than N records and holds
\* exactly the last N appended (all of them while fewer), in append order;
\* tail(m) returns the last min(m, stored) of them in chronological order.
C25_RingKeepsLastN ==
  /\ \A t \in GetProcessNames :
       LET app == AppendedTo(t, Len(lg.hist)) IN
       /\ count(lg.buffers[t]) <= LogCapacity
       /\ GetAll(lg.buffers[t]) = LastOf(app, Min(LogCapacity, Len(app)))
  /\ lg.out.kind = "process"
     => LET app == AppendedTo(lg.out.process, lg.out.at)
            stored == Min(LogCapacity, Len(app))
        IN lg.out.res = LastOf(app, Min(lg.out.n, stored))

\* a tag took more appends than its ring holds and a tail longer than the
\* capacity was asked of it: exactly N records came back
C25_Witness ==
  /\ lg.out.kind = "process"
  /\ lg.out.n > LogCapacity
  /\ Len(AppendedTo(lg.out.process, lg.out.at)) > LogCapacity
  /\ Len(lg.out.res) = LogCapacity

\* the entries the rings still hold after the first k appends, in the order
\* in which they were appended
Retained(k) ==
  SelectSeq(SubSeq(lg.hist, 1, k),
            LAMBDA e : Cardinality({j \in (e.Message + 1)..k :
                                      lg.hist[j].Process = e.Process}) < LogCapacity)

\* C26: merged(n) returns the last n records across all tags sorted by
\* timestamp, records of equal timestamp in the order of their insertion,
\* whatever their tags.
C26_MergedInInsertionOrder ==
  (lg.out.kind = "all" /\ lg.out.n >= 1)
  => lg.out.res = LastOf(Retained(lg.out.at),
                         Min(lg.out.n, Len(Retained(lg.out.at))))

\* the entries the open stream selects among appends since + 1 .. seen
Selected ==
  SelectSeq(SubSeq(lg.hist, lg.stream.since + 1, lg.stream.seen),
            LAMBDA e : lg.stream.process \in {"", e.Process})

\* C27: an open log stream has pushed, after each of its ticks, every record
\* appended to the selected tag (to any tag when none is selected) between
\* its opening and that tick, exactly once and in order, also once the ring
\* has reached its capacity.
C27_StreamPushesEachRecordOnce ==
  lg.stream.pc = "open" => lg.stream.sent = Selected

\* Server.Stop is past the Shutdown of the listeners
ListenersDrained == thr[ShutdownThread].pc \in {"drained", "loop", "instop", "done"}

\* StopAll has taken its snapshot of the processes
StopAllBegun == thr[ShutdownThread].pc \in {"loop", "instop", "done"}

\* the prober finds the Process Running and sends its HTTP probe
ProbeStep ==
  /\ registry[HealthApp] # 0
  /\ IsRunning(registry[HealthApp])
  /\ \E healthy \in BOOLEAN : performCheck(healthy)

\* C28: on shutdown no child is stopped before the proxy listeners have
\* finished draining, and once stopAll has begun the health prober performs
\* no probe and triggers no restart.
C28_ShutdownOrder ==
  /\ [][(ctxDone /\ \E o \in Objs : KilledInStep(o)) => ListenersDrained]_vars
  /\ [][ProbeStep => ~StopAllBegun]_vars
  /\ [][(hc.pc # "restarting" /\ hc'.pc = "restarting") => ~StopAllBegun]_vars

\* C33: the state of a Process reflects its child: while the state is
\* Stopped or Failed the child of the Process is not alive (so that after
\* a crash-triggered restart has succeeded the state is not Stopped while
\* the new child lives).
C33_StateReflectsChild ==
  \A o \in Objs :
    (procs[o].status \in {StatusStopped, StatusFailed} /\ procs[o].process # 0)
    => child[procs[o].process].st # "alive"

\* C34: the supervision loop never uses the child handle after a stop or a
\* force-kill has cleared it: no loop that has seen its child exit brings
\* the supervisor down with a nil-handle fault.
C34_NoNilHandleFault ==
  \A pid \in Pids : mon[pid].pc = "exited" => ~crashed

\* Manager.Stop on Process o has returned nil to the user, who has requested
\* nothing since
StopReturned(o) == thr[Caller].pc = "idle" /\ thr[Caller].stopped = o

\* the supervision loop pid starts a child in this step
LoopStarts(pid) ==
  /\ mon[pid].pc = "backoff"
  /\ mon'[pid].pc = "defer"
  /\ mon'[pid].branch = "started"

\* C35: after stop(name) has returned successfully no supervision loop starts
\* the app again until start or restart is requested, also when the stop
\* came while the loop was waiting in its restart backoff.
C35_StoppedStaysStopped ==
  [][\A pid \in Pids : LoopStarts(pid) => ~StopReturned(mon[pid].obj)]_vars

\* C36: when StopAll has returned without error no child spawned by this
\* supervisor is alive, whatever the state of its Process was at the call.
C36_StopAllStopsEveryChild ==
  (thr[ShutdownThread].pc = "done" /\ thr[ShutdownThread].errs = 0 /\ ~crashed)
  => \A pid \in Pids : child[pid].own => child[pid].st # "alive"

\* C37: whenever a Process is Stopped or Failed and its supervision loops
\* have returned, the PID file of its app does not exist, so that a later
\* supervisor does not recover a process this one has seen exit (every
\* child here was spawned by this supervisor).
C37_NoPidFileWhenDown ==
  \A o \in Objs :
    ( /\ registry[procs[o].name] = o
      /\ procs[o].status \in {StatusStopped, StatusFailed}
      /\ LoopsDone(o)
      /\ \A pid \in Pids : child[pid].own )
    => pidfile[procs[o].name] = 0

\* C38: restartCount never exceeds maxRetries, however crashes, stops and
\* restarts interleave.
C38_RestartsBounded == \A o \in Objs : procs[o].restarts <= MaxRetries

\* the host, without its port, is a configured domain or ends with "."
\* followed by a configured domain
NamedByDomain(domains, host) ==
  \E i \in 1..Len(domains) :
    host.name = domains[i].name \/ HasDotSuffix(host.name, domains[i].name)

NamedOrWildcard(domains, host) ==
  \/ \E i \in 1..Len(domains) : ~domains[i].wild /\ domains[i].name = host.name
  \/ \E i \in 1..Len(domains) :
       /\ domains[i].wild
       /\ Len(host.name) >= Len(domains[i].name)
       /\ \A k \in 1..Len(domains[i].name) :
            host.name[Len(host.name) - Len(domains[i].name) + k] = domains[i].name[k]

HoldsProcessLock(t, o) == stopc[o].active /\ stopc[o].caller = t

\* the select of stopProcess that the holder of o's p.mu sits in has a case
\* that is ready, or its 10 s can pass
HolderCanGoOn(o) ==
  ENABLED (WindowExpire(o) \/ StopDone(o) \/ StopTimeout(o) \/ StopCtxDone(o))

====
